---- MODULE Spec2Model ----
(***************************************************************************)
(* State-machine model of geokrig (src/Kriging.py): external drift kriging *)
(* of a sparsely observed column of a spatial table, followed by an        *)
(* ensemble of conditional simulations.                                    *)
(*                                                                         *)
(* The orchestration (row selection, array assembly, call order, seeding,  *)
(* output assembly, table mutation) is translated from src/Kriging.py.     *)
(* The numerical backend (gstools: vario_estimate, fit_variogram,          *)
(* ExtDrift, CondSRF, MasterRNG) is not part of the repository; it is      *)
(* modelled by its contract: deterministic functions of their arguments    *)
(* that honour conditioning, and calls that may raise.                     *)
(***************************************************************************)
EXTENDS Integers, Sequences, FiniteSets, TLC

(* ---------------------------------------------------------------------- *)
(* Bounds of the model                                                     *)
(* ---------------------------------------------------------------------- *)

\* number of spatial units (rows of the table)
NUnits == 2

\* largest number of realizations a caller asks for
MaxIter == 2

(* ---------------------------------------------------------------------- *)
(* Values                                                                  *)
(* ---------------------------------------------------------------------- *)

\* the missing value of a column (what isnull() tests for)
NaN == -99

\* the master seed of every call
MasterSeed == 20170519

None == "None"

isnull(v) == v = NaN

Rows == 1 .. NUnits

\* names of the columns the call is given
variable == "y"
drift1 == "d1"
Drift2Column == "d2"

RECURSIVE SumSeq(_)
SumSeq(s) == IF s = <<>> THEN 0 ELSE Head(s) + SumSeq(Tail(s))

\* range(n) of Python as a sequence: 0, 1, ..., n-1 (empty when n <= 0)
range(n) == [j \in 1 .. n |-> j - 1]

(* ---------------------------------------------------------------------- *)
(* The dataframe abstraction: a frame is [index, cols], cols a function    *)
(* from column names to equally long sequences.                            *)
(* ---------------------------------------------------------------------- *)

NRows(frame) == Len(frame.index)

\* positions (1-based, ascending) of the rows whose entry in col is present
RECURSIVE NotNullFrom(_, _)
NotNullFrom(col, k) ==
    IF k > Len(col) THEN <<>>
    ELSE IF isnull(col[k]) THEN NotNullFrom(col, k + 1)
    ELSE <<k>> \o NotNullFrom(col, k + 1)

NotNullRows(col) == NotNullFrom(col, 1)

Take(s, idx) == [j \in 1 .. Len(idx) |-> s[idx[j]]]

\* df[~df[variable].isnull()]: a new frame holding the selected rows, with
\* their index labels; the frame it is taken from is not touched
SelectNotNull(frame, name) ==
    LET idx == NotNullRows(frame.cols[name])
    IN  [index |-> Take(frame.index, idx),
         cols  |-> [c \in DOMAIN frame.cols |-> Take(frame.cols[c], idx)]]

\* frame.reset_index(drop=True): the index becomes 0 .. n-1
reset_index(frame) == [frame EXCEPT !.index = range(Len(frame.index))]

\* the centroid coordinates of a geometry column
centroid_x(geometry) == [k \in 1 .. Len(geometry) |-> geometry[k].x]
centroid_y(geometry) == [k \in 1 .. Len(geometry) |-> geometry[k].y]

\* frame[name] = values: sets (adds or overwrites) one column, positionally
SetColumn(frame, name, values) ==
    [frame EXCEPT !.cols =
        [c \in (DOMAIN frame.cols) \cup {name} |->
            IF c = name THEN values ELSE frame.cols[c]]]

(* ---------------------------------------------------------------------- *)
(* numpy arrays of drift data: one-dimensional, or two stacked rows        *)
(* ---------------------------------------------------------------------- *)

Array1(values) == [ndim |-> 1, data |-> values]

\* np.vstack((a, b)): a first, b second
vstack(a, b) == [ndim |-> 2, data |-> <<a, b>>]

\* the drift vector of the k-th location of a drift array
DriftAt(arr, k) ==
    IF arr.ndim = 1 THEN <<arr.data[k]>>
    ELSE <<arr.data[1][k], arr.data[2][k]>>

(* ---------------------------------------------------------------------- *)
(* The numerical backend, by contract                                      *)
(* ---------------------------------------------------------------------- *)

\* a position tuple (lat, lon) holds two coordinate sequences
PosAt(pos, k) == <<pos[1][k], pos[2][k]>>

NPos(pos) == Len(pos[1])

\* the conditioning points that lie at position p
CondAt(cond_pos, p) == {j \in 1 .. NPos(cond_pos) : PosAt(cond_pos, j) = p}

FirstOf(S) == CHOOSE j \in S : \A m \in S : j <= m

HasNaN(s) == \E j \in 1 .. Len(s) : isnull(s[j])

\* the deterministic trend the drift covariates of one location imply
DriftTrend(dv) == IF HasNaN(dv) THEN NaN ELSE 1000 + 7 * SumSeq(dv)

\* gs.random.MasterRNG(seed): a generator whose state is fixed by the seed
MasterRNG(s) == [state |-> s % 65537]

\* seed(): advances the generator; the sub-seed drawn is its new state
RngAdvance(rng) == [state |-> (rng.state * 75 + 74) % 65537]
RngValue(rng) == rng.state

RECURSIVE RngSkip(_, _)
RngSkip(rng, n) == IF n <= 0 THEN rng ELSE RngSkip(RngAdvance(rng), n - 1)

\* gs.vario_estimate: the empirical variogram of the observations
vario_estimate(pos, values, normalizer) ==
    [pos |-> pos, field |-> values, estimator |-> "cressie", latlon |-> TRUE,
     mesh_type |-> "unstructured", normalizer |-> normalizer]

\* model(dim=2, latlon=True).fit_variogram(..., nugget=False, loss="cauchy")
fit_variogram(family, variogram) ==
    [family |-> family, dim |-> 2, latlon |-> TRUE, nugget |-> 0,
     loss |-> "cauchy", fitted_to |-> variogram]

\* the kriging estimate at every position of pos: exact at the conditioning
\* points, trend of the drift plus the pull of the observations elsewhere
KrigeField(k, pos, ext_drift) ==
    [t \in 1 .. NPos(pos) |->
        LET at == CondAt(k.cond_pos, PosAt(pos, t))
            tr == DriftTrend(DriftAt(ext_drift, t))
        IN  IF at # {} THEN k.cond_val[FirstOf(at)]
            ELSE IF tr = NaN THEN NaN
            ELSE tr + SumSeq(k.cond_val)]

\* whether a drift array holds a missing entry
DriftHasNaN(arr) ==
    IF arr.ndim = 1 THEN HasNaN(arr.data)
    ELSE HasNaN(arr.data[1]) \/ HasNaN(arr.data[2])

\* the kriging system can be solved only from finite conditioning data
Solvable(cond_val, cond_drift) == cond_val # <<>> /\ ~DriftHasNaN(cond_drift)

\* a variogram needs observations
Estimable(values) == values # <<>>

\* the drift-only mean at every position of pos
MeanField(k, pos, ext_drift) ==
    [t \in 1 .. NPos(pos) |-> DriftTrend(DriftAt(ext_drift, t))]

\* one conditional random field: the observed values at the conditioning
\* points, the kriging estimate plus seeded noise elsewhere
CondField(k, pos, ext_drift, seedval) ==
    [t \in 1 .. NPos(pos) |->
        LET at == CondAt(k.cond_pos, PosAt(pos, t))
            kv == KrigeField(k, pos, ext_drift)[t]
        IN  IF at # {} THEN k.cond_val[FirstOf(at)]
            ELSE IF kv = NaN THEN NaN
            ELSE kv + ((seedval * (t + 1)) % 97)]

(* ---------------------------------------------------------------------- *)
(* pandas.DataFrame of a list of rows, and its transpose                   *)
(* ---------------------------------------------------------------------- *)

\* pd.DataFrame(rows): one row per list entry, default index and columns
DataFrame(rows) ==
    [index   |-> range(Len(rows)),
     columns |-> IF rows = <<>> THEN <<>> ELSE range(Len(rows[1])),
     values  |-> rows]

\* the transposition left out: the frame as DataFrame(rows) built it
Transpose_omitted(m) == m

\* frame.T: rows become columns
Transpose(m) ==
    [index   |-> m.columns,
     columns |-> m.index,
     values  |-> [c \in 1 .. Len(m.columns) |->
                    [r \in 1 .. Len(m.index) |-> m.values[r][c]]]]

\* matrix.reset_index(drop=True)
ResetMatrixIndex(m) == [m EXCEPT !.index = range(Len(m.index))]

(* ---------------------------------------------------------------------- *)
(* State                                                                   *)
(* ---------------------------------------------------------------------- *)

VARIABLES
    df,                          \* the caller's table, mutated in place
    iterations, drift2,          \* arguments of the call in progress
    pc,                          \* position of the call
    intpoints, lat, lon, int_data, g_lat, g_lon,
    external_drift_data, external_drift_at_abortion,
    normalizer, variogram, model, krig, cond_srf, seed, i, fields,
    fields_df,                   \* the value returned to the caller
    err,                         \* the exception that reached the caller
    df0,                         \* the table as it was when the call began
    prev,                        \* arguments and result of the latest earlier call that returned
    trace                        \* backend calls of the call in progress, in order

args == <<iterations, drift2>>

locals == <<intpoints, lat, lon, int_data, g_lat, g_lon, external_drift_data,
            external_drift_at_abortion, normalizer, variogram, model, krig,
            cond_srf, seed, i, fields>>

vars == <<df, args, pc, locals, fields_df, err, df0, prev, trace>>

(* ---------------------------------------------------------------------- *)
(* Tables a caller can pass                                                *)
(* ---------------------------------------------------------------------- *)

\* target entries of unit k: missing, non-positive, positive
TargetValues(k) == {NaN, 1 - k, k}

Drift1Value(k) == 10 + k
Drift2Value(k) == 20 + k

\* where a drift covariate is missing: nowhere, or in one entry of one column
MissingDrift == {<<None, 0>>} \cup ({drift1, Drift2Column} \X Rows)

Table(y, miss) ==
    [index |-> [k \in Rows |-> 10 * k],
     cols  |-> [c \in {"geometry", variable, drift1, Drift2Column} |->
                 CASE c = "geometry" -> [k \in Rows |-> [x |-> k, y |-> NUnits + k]]
                   [] c = variable   -> y
                   [] c = drift1     ->
                        [k \in Rows |-> IF miss = <<drift1, k>> THEN NaN ELSE Drift1Value(k)]
                   [] OTHER          ->
                        [k \in Rows |-> IF miss = <<Drift2Column, k>> THEN NaN ELSE Drift2Value(k)]]]

Tables ==
    {Table(y, miss) :
        y \in {t \in [Rows -> UNION {TargetValues(k) : k \in Rows}] :
                    \A k \in Rows : t[k] \in TargetValues(k)},
        miss \in MissingDrift}

NoPrev == [valid |-> FALSE, iterations |-> 0, drift2 |-> None, fields_df |-> <<>>]

Init ==
    /\ df \in Tables
    /\ df0 = df
    /\ iterations = 0
    /\ drift2 = None
    /\ pc = "idle"
    /\ intpoints = <<>> /\ lat = <<>> /\ lon = <<>> /\ int_data = <<>>
    /\ g_lat = <<>> /\ g_lon = <<>>
    /\ external_drift_data = <<>> /\ external_drift_at_abortion = <<>>
    /\ normalizer = <<>> /\ variogram = <<>> /\ model = <<>>
    /\ krig = <<>> /\ cond_srf = <<>> /\ seed = <<>> /\ i = 0 /\ fields = <<>>
    /\ fields_df = <<>>
    /\ err = None
    /\ prev = NoPrev
    /\ trace = <<>>

(* ---------------------------------------------------------------------- *)
(* Stage 1 of geokrig: the arrays handed to the backend                    *)
(* ---------------------------------------------------------------------- *)

\* the observed rows, re-indexed (a frame of its own)
Intpoints(frame) == reset_index(SelectNotNull(frame, variable))

\* the observations' first coordinate taken from the centroid's y, while the
\* targets' first coordinate stays the centroid's x
ObsLat_from_y(ip) == centroid_y(ip.cols["geometry"])

\* coordinates of the observations ("lat" is the centroid's x, "lon" its y)
ObsLat(ip) == centroid_x(ip.cols["geometry"])
ObsLon(ip) == centroid_y(ip.cols["geometry"])

\* coordinates of every spatial unit
TargetLat(frame) == centroid_x(frame.cols["geometry"])
TargetLon(frame) == centroid_y(frame.cols["geometry"])

\* drift at every spatial unit: drift1 alone, or drift1 stacked over drift2
ExternalDriftData(frame, d2) ==
    IF d2 # None
    THEN vstack(frame.cols[drift1], frame.cols[d2])
    ELSE Array1(frame.cols[drift1])

\* the observations' drift stacked the other way round
ExternalDriftAtAbortion_swapped(ip, d2) ==
    IF d2 # None
    THEN vstack(ip.cols[d2], ip.cols[drift1])
    ELSE Array1(ip.cols[drift1])

\* drift at the observations, stacked the same way
ExternalDriftAtAbortion(ip, d2) ==
    IF d2 # None
    THEN vstack(ip.cols[drift1], ip.cols[d2])
    ELSE Array1(ip.cols[drift1])

\* gs.normalizer.LogNormal(int_data): built from the observed values; the
\* call site tests nothing about them
LogNormal(values) == [name |-> "LogNormal", data |-> values]

\* the re-indexing applied to the caller's table itself
ExtractTableEffect_inplace == df' = reset_index(df)

\* what selecting and re-indexing the observed rows does to the caller's
\* table: nothing (intpoints is a frame of its own)
ExtractTableEffect == UNCHANGED df

\* one generator shared by all calls: a call continues where the latest
\* earlier call that returned left it
FreshSeed_shared ==
    RngSkip(MasterRNG(MasterSeed), IF prev.valid THEN prev.iterations ELSE 0)

\* seed = gs.random.MasterRNG(20170519): a new generator in every call
FreshSeed == MasterRNG(MasterSeed)

\* the kriging column written as soon as the kriging field exists
KrigeTableEffect_early == df' = SetColumn(df, "cond_krig", krig'.fields.krig)

\* what the kriging stage does to the caller's table: nothing (the column is
\* written after the loop)
KrigeTableEffect == UNCHANGED df

\* the list of realizations, in realization order
FieldList(srf, n) == [r \in 1 .. Len(range(n)) |-> srf.fields[r]]

\* the returned frame: DataFrame(fields).T.reset_index(drop=True)
FieldsFrame(fs) == ResetMatrixIndex(Transpose(DataFrame(fs)))

\* the column written back to the table
KrigColumn(k) == k.fields.krig

\* the covariance model class the caller passes (e.g. gs.Matern)
CovModel == "Matern"

Log(op, ext_drift) == [op |-> op, ext_drift |-> ext_drift]

(* ---------------------------------------------------------------------- *)
(* Actions                                                                 *)
(* ---------------------------------------------------------------------- *)

\* the caller invokes geokrig(df, variable, it, model, drift1, d2); the call
\* runs its data extraction and builds the normalizer
Call(it, d2) ==
    /\ pc \in {"idle", "done"}
    /\ iterations' = it
    /\ drift2' = d2
    /\ df0' = df
    /\ intpoints' = Intpoints(df)
    /\ lat' = ObsLat(intpoints')
    /\ lon' = ObsLon(intpoints')
    /\ int_data' = intpoints'.cols[variable]
    /\ g_lat' = TargetLat(df)
    /\ g_lon' = TargetLon(df)
    /\ external_drift_data' = ExternalDriftData(df, d2)
    /\ external_drift_at_abortion' = ExternalDriftAtAbortion(intpoints', d2)
    /\ normalizer' = LogNormal(int_data')
    /\ model' = CovModel
    /\ variogram' = <<>> /\ krig' = <<>> /\ cond_srf' = <<>>
    /\ seed' = <<>> /\ i' = 0 /\ fields' = <<>>
    /\ fields_df' = <<>>
    /\ err' = None
    /\ trace' = <<>>
    /\ prev' = IF pc = "done" /\ err = None
               THEN [valid |-> TRUE, iterations |-> iterations, drift2 |-> drift2,
                     fields_df |-> fields_df]
               ELSE prev
    /\ pc' = "vario"
    /\ ExtractTableEffect

\* an exception of a backend call leaves geokrig at once
Raise(kind) ==
    /\ err' = kind
    /\ pc' = "done"
    /\ UNCHANGED <<df, args, fields_df, df0, prev>>

VarioEstimate ==
    /\ pc = "vario"
    /\ trace' = Append(trace, Log("vario_estimate", <<>>))
    /\ \/ /\ Estimable(int_data)
          /\ variogram' = vario_estimate(<<lat, lon>>, int_data, normalizer)
          /\ pc' = "fit"
          /\ UNCHANGED <<df, args, fields_df, err, df0, prev>>
       \/ /\ Raise("VariogramError")
          /\ UNCHANGED variogram
    /\ UNCHANGED <<intpoints, lat, lon, int_data, g_lat, g_lon, external_drift_data,
                   external_drift_at_abortion, normalizer, model, krig, cond_srf,
                   seed, i, fields>>

FitVariogram ==
    /\ pc = "fit"
    /\ trace' = Append(trace, Log("fit_variogram", <<>>))
    /\ \/ /\ model' = fit_variogram(model, variogram)
          /\ pc' = "krige"
          /\ UNCHANGED <<df, args, fields_df, err, df0, prev>>
       \/ /\ Raise("FitError")
          /\ UNCHANGED model
    /\ UNCHANGED <<intpoints, lat, lon, int_data, g_lat, g_lon, external_drift_data,
                   external_drift_at_abortion, normalizer, variogram, krig, cond_srf,
                   seed, i, fields>>

\* gs.krige.ExtDrift(...), krig.unstructured(...), and the two krig(...) calls
Krige ==
    /\ pc = "krige"
    /\ LET pos == <<g_lat, g_lon>>
           k0  == [cond_pos  |-> <<lat, lon>>,
                   cond_val  |-> int_data,
                   ext_drift |-> external_drift_at_abortion,
                   model     |-> model,
                   pos       |-> pos]
       IN  /\ trace' = trace \o
                 << Log("ExtDrift", external_drift_at_abortion),
                    Log("unstructured", external_drift_data),
                    Log("krig", external_drift_data),
                    Log("mean_field", external_drift_data) >>
           /\ \/ /\ Solvable(int_data, external_drift_at_abortion)
                 /\ krig' = [k0 EXCEPT !.pos = pos] @@
                            [fields |->
                               [krig       |-> KrigeField(k0, pos, external_drift_data),
                                mean_field |-> MeanField(k0, pos, external_drift_data)]]
                 /\ pc' = "condsrf"
                 /\ KrigeTableEffect
                 /\ UNCHANGED <<args, fields_df, err, df0, prev>>
              \/ /\ Raise("SingularSystemError")
                 /\ UNCHANGED krig
    /\ UNCHANGED <<intpoints, lat, lon, int_data, g_lat, g_lon, external_drift_data,
                   external_drift_at_abortion, normalizer, variogram, model, cond_srf,
                   seed, i, fields>>

\* gs.CondSRF(krig), cond_srf.set_pos(...), the master generator, fields = {}
CondSetup ==
    /\ pc = "condsrf"
    /\ cond_srf' = [krige |-> krig, latlon |-> TRUE, pos |-> <<g_lat, g_lon>>,
                    mesh_type |-> "unstructured", fields |-> <<>>, seeds |-> <<>>]
    /\ seed' = FreshSeed
    /\ fields' = <<>>
    /\ i' = 0
    /\ pc' = "loop"
    /\ UNCHANGED <<df, args, fields_df, err, df0, prev, trace>>
    /\ UNCHANGED <<intpoints, lat, lon, int_data, g_lat, g_lon, external_drift_data,
                   external_drift_at_abortion, normalizer, variogram, model, krig>>

\* one pass of "for i in range(iterations)": draw a sub-seed, simulate, store
Simulate ==
    /\ pc = "loop"
    /\ i < iterations
    /\ LET rng == RngAdvance(seed)
           s   == RngValue(rng)
       IN  /\ seed' = rng
           /\ trace' = Append(trace, Log("cond_srf", external_drift_data))
           /\ \/ /\ LET f == CondField(cond_srf.krige, cond_srf.pos,
                                      external_drift_data, s)
                    IN  /\ cond_srf' = [cond_srf EXCEPT !.fields = Append(@, f),
                                                        !.seeds = Append(@, s)]
                        /\ fields' = Append(fields, f)
                 /\ i' = i + 1
                 /\ pc' = "loop"
                 /\ UNCHANGED <<df, args, fields_df, err, df0, prev>>
              \/ /\ Raise("SimulationError")
                 /\ UNCHANGED <<cond_srf, fields, i>>
    /\ UNCHANGED <<intpoints, lat, lon, int_data, g_lat, g_lon, external_drift_data,
                   external_drift_at_abortion, normalizer, variogram, model, krig>>

\* after the loop: collect the fields, write the kriging column, return
Assemble ==
    /\ pc = "loop"
    /\ ~(i < iterations)
    /\ fields' = FieldList(cond_srf, iterations)
    /\ df' = SetColumn(df, "cond_krig", KrigColumn(krig))
    /\ fields_df' = FieldsFrame(fields')
    /\ pc' = "done"
    /\ UNCHANGED <<args, err, df0, prev, trace>>
    /\ UNCHANGED <<intpoints, lat, lon, int_data, g_lat, g_lon, external_drift_data,
                   external_drift_at_abortion, normalizer, variogram, model, krig,
                   cond_srf, seed, i>>

Next ==
    \/ \E it \in -1 .. MaxIter, d2 \in {None, Drift2Column} : Call(it, d2)
    \/ VarioEstimate
    \/ FitVariogram
    \/ Krige
    \/ CondSetup
    \/ Simulate
    \/ Assemble

Spec == Init /\ [][Next]_vars

(* ---------------------------------------------------------------------- *)
(* Vocabulary of the properties                                            *)
(* ---------------------------------------------------------------------- *)

BackendErrors == {"VariogramError", "FitError", "SingularSystemError", "SimulationError"}

\* the call has returned a value to the caller
Returned == pc = "done" /\ err = None

\* the call has ended with an exception
Raised == pc = "done" /\ err # None

\* the conditional simulator exists and holds the fields generated so far
HasFields == pc = "loop" \/ (pc = "done" /\ err \in {None, "SimulationError"})

\* the target column of the table the call was given
Target == df0.cols[variable]

Observed(k) == ~isnull(Target[k])

\* the table row of the j-th observation: the j-th row, in table order, whose
\* target value is present
ObsRow(j) ==
    CHOOSE r \in Rows : Observed(r) /\ Cardinality({q \in 1 .. r : Observed(q)}) = j

NObserved == Cardinality({r \in Rows : Observed(r)})

\* an observed target value is zero or negative
NonPositiveObserved == \E k \in Rows : Observed(k) /\ Target[k] <= 0

\* a drift covariate the call uses is missing at some spatial unit
DriftMissing ==
    \/ HasNaN(df0.cols[drift1])
    \/ drift2 # None /\ HasNaN(df0.cols[drift2])

\* the table of the call is one the contract accepts: something observed,
\* something to predict, positive observations, drift known everywhere
ValidTable ==
    /\ \E k \in Rows : Observed(k)
    /\ \E k \in Rows : ~Observed(k)
    /\ ~NonPositiveObserved
    /\ ~DriftMissing

\* both drift columns of the table are complete
DriftColumnsComplete ==
    ~HasNaN(df0.cols[drift1]) /\ ~HasNaN(df0.cols[Drift2Column])

\* the centroid of row k of the table the call was given
CentroidOf(k) == <<df0.cols["geometry"][k].x, df0.cols["geometry"][k].y>>

(* ---------------------------------------------------------------------- *)
(* C1                                                                      *)
(* ---------------------------------------------------------------------- *)

\* C1 (as claimed): after a call with iterations >= 1 on an acceptable table
\* returns, the returned matrix has iterations rows and N columns, row r
\* being realization r and column c the c-th spatial unit.
C1_RowsAreRealizations ==
    (Returned /\ iterations >= 1 /\ ValidTable) =>
        /\ Len(fields_df.values) = iterations
        /\ \A r \in 1 .. iterations :
              /\ Len(fields_df.values[r]) = NRows(df0)
              /\ \A c \in 1 .. NRows(df0) :
                    fields_df.values[r][c] = cond_srf.fields[r][c]

\* C1 (amended): after a call with iterations >= 1 returns, the returned
\* frame has N rows and iterations columns: row c (index c-1) holds the
\* values at the c-th spatial unit in table order, column r (label r-1) holds
\* realization r-1.
C1_RowsAreSpatialUnits ==
    (Returned /\ iterations >= 1) =>
        /\ Len(fields_df.values) = NRows(df0)
        /\ fields_df.index = [c \in 1 .. NRows(df0) |-> c - 1]
        /\ fields_df.columns = [r \in 1 .. iterations |-> r - 1]
        /\ Len(cond_srf.fields) = iterations
        /\ \A c \in 1 .. NRows(df0) :
              /\ Len(fields_df.values[c]) = iterations
              /\ PosAt(cond_srf.pos, c) = CentroidOf(c)
              /\ \A r \in 1 .. iterations :
                    fields_df.values[c][r] = cond_srf.fields[r][c]

\* a call for one realization over two or more units has returned
C1_Witness ==
    /\ Returned
    /\ iterations >= 1
    /\ iterations # NRows(df0)
    /\ Len(fields_df.values) = NRows(df0)

(* ---------------------------------------------------------------------- *)
(* C2                                                                      *)
(* ---------------------------------------------------------------------- *)

\* C2: every conditional field generated so far, and every column of the
\* returned frame, equals the observed value at every row of the table
\* whose target value is present.
C2_StrictConditioning ==
    /\ HasFields =>
          \A r \in 1 .. Len(cond_srf.fields) : \A k \in Rows :
              Observed(k) => cond_srf.fields[r][k] = Target[k]
    /\ (Returned /\ iterations >= 1) =>
          \A r \in 1 .. iterations : \A k \in Rows :
              Observed(k) => fields_df.values[k][r] = Target[k]

\* two realizations returned for a table with an observed and an unobserved
\* unit, the unobserved unit's value differing between the realizations
C2_Witness ==
    /\ Returned
    /\ iterations >= 2
    /\ \E k \in Rows : Observed(k) /\ fields_df.values[k][1] = Target[k]
                                   /\ fields_df.values[k][2] = Target[k]
    /\ \E k \in Rows : ~Observed(k) /\ fields_df.values[k][1] # fields_df.values[k][2]

(* ---------------------------------------------------------------------- *)
(* C3                                                                      *)
(* ---------------------------------------------------------------------- *)

\* the n-th sub-seed of a generator made from the master seed
NthSubSeed(n) == RngValue(RngSkip(MasterRNG(MasterSeed), n))

\* C3: a call that returns after an earlier call with the same arguments on
\* the same table returned gives the same frame; and realization r of every
\* call is generated from the (r+1)-th draw of a generator made from the
\* master seed in that call, one draw per realization.
C3_Deterministic ==
    /\ (Returned /\ prev.valid /\ prev.iterations = iterations /\ prev.drift2 = drift2)
          => fields_df = prev.fields_df
    /\ HasFields =>
          /\ Len(cond_srf.seeds) = Len(cond_srf.fields)
          /\ \A r \in 1 .. Len(cond_srf.seeds) : cond_srf.seeds[r] = NthSubSeed(r)
          /\ pc = "loop" => seed = RngSkip(MasterRNG(MasterSeed), i)

\* a second call with the arguments of the first has returned two
\* realizations that differ at an unobserved unit
C3_Witness ==
    /\ Returned
    /\ prev.valid /\ prev.iterations = iterations /\ prev.drift2 = drift2
    /\ iterations >= 2
    /\ \E k \in Rows : ~Observed(k) /\ fields_df.values[k][1] # fields_df.values[k][2]

(* ---------------------------------------------------------------------- *)
(* C4 - C7: input validation                                               *)
(* ---------------------------------------------------------------------- *)

\* C4: a call with iterations = 0 or negative on an acceptable table, unless
\* a backend stage fails first, ends with ConfigurationError, returns nothing
\* and leaves the table without a new column.
C4_NoIterationsIsAnError ==
    (pc = "done" /\ iterations < 1 /\ ValidTable /\ err \notin BackendErrors) =>
        (err = "ConfigurationError" /\ df = df0)

\* C5: a call (iterations >= 1, positive observations, drift known
\* everywhere) on a table whose target column has no missing value, unless a
\* backend stage fails first, ends with ConfigurationError.
C5_NothingToPredictIsAnError ==
    (/\ pc = "done"
     /\ \A k \in Rows : Observed(k)
     /\ iterations >= 1 /\ ~NonPositiveObserved /\ ~DriftMissing
     /\ err \notin BackendErrors) =>
        err = "ConfigurationError"

\* C6: a call (iterations >= 1, target column with positive observations and
\* missing values) in which a supplied drift covariate is missing for some
\* spatial unit, unless a backend stage fails first, ends with
\* ConfigurationError.
C6_MissingDriftIsAnError ==
    (/\ pc = "done"
     /\ DriftMissing
     /\ iterations >= 1 /\ ~NonPositiveObserved
     /\ \E k \in Rows : Observed(k)
     /\ \E k \in Rows : ~Observed(k)
     /\ err \notin BackendErrors) =>
        err = "ConfigurationError"

\* C7: once a call (iterations >= 1, drift known everywhere, something to
\* predict) on a table with a zero or negative observed target value is past
\* its normalizer, no backend stage has been invoked, and the call ends with
\* NumericError.
C7_NonPositiveIsAnError ==
    (/\ pc # "idle"
     /\ NonPositiveObserved
     /\ iterations >= 1 /\ ~DriftMissing
     /\ \E k \in Rows : ~Observed(k)) =>
        /\ trace = <<>>
        /\ pc = "done" => err = "NumericError"

(* ---------------------------------------------------------------------- *)
(* C8                                                                      *)
(* ---------------------------------------------------------------------- *)

\* C8 (as claimed): after a call (iterations >= 1, acceptable table with
\* both drift columns complete) returns, the table has the columns it had
\* plus the kriging column, every column it had before the call is unchanged,
\* and so is the row index. (An earlier call, if any, was made with
\* iterations >= 1 too.)
C8_OnlyANewColumn ==
    (/\ Returned
     /\ iterations >= 1 /\ ValidTable /\ DriftColumnsComplete
     /\ prev.valid => prev.iterations >= 1) =>
        /\ DOMAIN df.cols = (DOMAIN df0.cols) \cup {"cond_krig"}
        /\ df.index = df0.index
        /\ \A c \in DOMAIN df0.cols : df.cols[c] = df0.cols[c]

\* C8 (amended): after a call returns, the table has the columns it had plus
\* the column cond_krig; cond_krig holds, row by row, the kriging estimate at
\* that row's centroid (a cond_krig column the table already had is
\* overwritten); every other column and the row index are unchanged.
C8_OnlyTheKrigingColumn ==
    Returned =>
        /\ DOMAIN df.cols = (DOMAIN df0.cols) \cup {"cond_krig"}
        /\ df.index = df0.index
        /\ \A c \in (DOMAIN df0.cols) \ {"cond_krig"} : df.cols[c] = df0.cols[c]
        /\ Len(df.cols["cond_krig"]) = NRows(df0)
        /\ \A k \in Rows :
              /\ PosAt(krig.pos, k) = CentroidOf(k)
              /\ df.cols["cond_krig"][k] = krig.fields.krig[k]

\* a call on an acceptable table that already had a cond_krig column has
\* returned and has changed that column, and nothing else
C8_Witness ==
    /\ Returned
    /\ iterations >= 1 /\ ValidTable /\ DriftColumnsComplete
    /\ "cond_krig" \in DOMAIN df0.cols
    /\ df.cols["cond_krig"] # df0.cols["cond_krig"]
    /\ \A c \in (DOMAIN df0.cols) \ {"cond_krig"} : df.cols[c] = df0.cols[c]

(* ---------------------------------------------------------------------- *)
(* C9                                                                      *)
(* ---------------------------------------------------------------------- *)

Ops == [j \in 1 .. Len(trace) |-> trace[j].op]

KrigeOps == <<"ExtDrift", "unstructured", "krig", "mean_field">>

\* the backend calls made up to a failure of n-th simulation: each stage once
OpsBefore(kind) ==
    CASE kind = "VariogramError"      -> <<"vario_estimate">>
      [] kind = "FitError"            -> <<"vario_estimate", "fit_variogram">>
      [] kind = "SingularSystemError" -> <<"vario_estimate", "fit_variogram">> \o KrigeOps
      [] OTHER                        ->
            <<"vario_estimate", "fit_variogram">> \o KrigeOps
                \o [j \in 1 .. i + 1 |-> "cond_srf"]

\* C9: when a call ends with the exception of a backend stage, the table is
\* as it was before the call, nothing is returned, and every backend stage up
\* to the failing one was invoked once (the failing one is not retried).
C9_FailureLeavesNothing ==
    Raised =>
        /\ df = df0
        /\ err \in BackendErrors
        /\ Ops = OpsBefore(err)
        /\ err = "SimulationError" => i < iterations
        /\ fields_df = <<>>

\* the second realization failed after the first was generated
C9_Witness ==
    /\ Raised
    /\ err = "SimulationError"
    /\ i >= 1
    /\ Len(cond_srf.fields) = i
    /\ df = df0

(* ---------------------------------------------------------------------- *)
(* C10                                                                     *)
(* ---------------------------------------------------------------------- *)

\* the drift array of the observations: drift1 over drift2, entry j from the
\* table row of the j-th observation, whose centroid is the j-th position
ObsDriftAligned(arr) ==
    /\ arr.ndim = 2
    /\ Len(arr.data[1]) = NObserved /\ Len(arr.data[2]) = NObserved
    /\ Len(lat) = NObserved /\ Len(lon) = NObserved
    /\ \A j \in 1 .. NObserved :
          /\ arr.data[1][j] = df0.cols[drift1][ObsRow(j)]
          /\ arr.data[2][j] = df0.cols[Drift2Column][ObsRow(j)]
          /\ <<lat[j], lon[j]>> = CentroidOf(ObsRow(j))

\* the drift array of the targets: drift1 over drift2, entry k from table row
\* k, whose centroid is the k-th position
TargetDriftAligned(arr) ==
    /\ arr.ndim = 2
    /\ Len(arr.data[1]) = NRows(df0) /\ Len(arr.data[2]) = NRows(df0)
    /\ \A k \in Rows :
          /\ arr.data[1][k] = df0.cols[drift1][k]
          /\ arr.data[2][k] = df0.cols[Drift2Column][k]
          /\ <<g_lat[k], g_lon[k]>> = CentroidOf(k)

\* C10: in a call with two drift covariates, the drift array given to the
\* kriging constructor is the observations' array, and the array given to
\* the kriging solve, the mean-field solve and every simulation is the one
\* target array, both stacked drift1 first and aligned with their locations.
C10_DriftArraysAligned ==
    (pc # "idle" /\ drift2 # None) =>
        \A j \in 1 .. Len(trace) :
            /\ trace[j].op = "ExtDrift" => ObsDriftAligned(trace[j].ext_drift)
            /\ trace[j].op \in {"unstructured", "krig", "mean_field", "cond_srf"} =>
                  /\ TargetDriftAligned(trace[j].ext_drift)
                  /\ trace[j].ext_drift = external_drift_data

\* a call with two drift covariates has returned two realizations for a
\* table with an observed and an unobserved unit
C10_Witness ==
    /\ Returned
    /\ drift2 # None
    /\ iterations >= 2
    /\ Len(trace) = 8
    /\ \E k \in Rows : Observed(k)
    /\ \E k \in Rows : ~Observed(k)

====
